---- MODULE Spec2Model ----
(***************************************************************************)
(* Model of the spreadsheet transforms of RM-Projections:                  *)
(*   src/app.py     transform_style_units  (first Savage tool)             *)
(*   src/Savage.py  transform_style_units, transform_plm_to_mcu,           *)
(*                  transform_vspink                                       *)
(* A DataFrame is a sequence of rows, a row a function from column name to *)
(* cell.  pandas operations are operators that compute what pandas         *)
(* computes on these tables (pandas 2.x semantics).                        *)
(***************************************************************************)
EXTENDS Integers, Sequences, FiniteSets, TLC

VARIABLES columns, rows, workbook, result

vars == <<columns, rows, workbook, result>>

(***************************************************************************)
(* Strings.  TLC strings support Len, SubSeq and \o.                       *)
(***************************************************************************)
UpperLetters == "ABCDEFGHIJKLMNOPQRSTUVWXYZ"

LowerLetters == "abcdefghijklmnopqrstuvwxyz"

\* the characters that occur in sorted values, in code point order
CodePoints == " #(),-./0123456789" \o UpperLetters \o LowerLetters

CharAt(s, i) == SubSeq(s, i, i)

IndexIn(c, s) == CHOOSE i \in 1..Len(s) : CharAt(s, i) = c

Chars(s) == {CharAt(s, i) : i \in 1..Len(s)}

CodePointOf == [c \in Chars(CodePoints) |-> IndexIn(c, CodePoints)] @@ <<>>

\* position of a character in code point order
Ord(c) == CodePointOf[c]

IsSpace(c) == c \in {" ", "\n", "\t"}

\* the lower-case letter of every upper-case letter
LowerOf ==
    [c \in Chars(UpperLetters) |-> CharAt(LowerLetters, IndexIn(c, UpperLetters))] @@ <<>>

RECURSIVE LStrip(_)
LStrip(s) ==
    IF Len(s) > 0 /\ IsSpace(CharAt(s, 1)) THEN LStrip(SubSeq(s, 2, Len(s))) ELSE s

RECURSIVE RStrip(_)
RStrip(s) ==
    IF Len(s) > 0 /\ IsSpace(CharAt(s, Len(s)))
    THEN RStrip(SubSeq(s, 1, Len(s) - 1)) ELSE s

\* str.strip()
Strip(s) == RStrip(LStrip(s))

IsUpper(c) == c \in DOMAIN LowerOf

LowerChar(c) == IF IsUpper(c) THEN LowerOf[c] ELSE c

RECURSIVE Lower(_)
\* str.lower()
Lower(s) ==
    IF Len(s) = 0 THEN s ELSE LowerChar(CharAt(s, 1)) \o Lower(SubSeq(s, 2, Len(s)))

\* str.startswith(p)
StartsWith(s, p) == Len(s) >= Len(p) /\ SubSeq(s, 1, Len(p)) = p

IsNewlineOrQuote(c) == c \in {"\n", "\""}

RECURSIVE SkipNewlineOrQuote(_)
SkipNewlineOrQuote(s) ==
    IF Len(s) > 0 /\ IsNewlineOrQuote(CharAt(s, 1))
    THEN SkipNewlineOrQuote(SubSeq(s, 2, Len(s))) ELSE s

RECURSIVE ReplaceNewlineOrQuote(_)
\* str.replace of the pattern "one or more newlines or double quotes" by one space
ReplaceNewlineOrQuote(s) ==
    IF Len(s) = 0 THEN s
    ELSE IF IsNewlineOrQuote(CharAt(s, 1))
         THEN " " \o ReplaceNewlineOrQuote(SkipNewlineOrQuote(s))
         ELSE CharAt(s, 1) \o ReplaceNewlineOrQuote(SubSeq(s, 2, Len(s)))

RECURSIVE StrLess(_, _)
\* Python's < on str: lexicographic by code point
StrLess(a, b) ==
    IF Len(b) = 0 THEN FALSE
    ELSE IF Len(a) = 0 THEN TRUE
    ELSE IF CharAt(a, 1) = CharAt(b, 1)
         THEN StrLess(SubSeq(a, 2, Len(a)), SubSeq(b, 2, Len(b)))
         ELSE Ord(CharAt(a, 1)) < Ord(CharAt(b, 1))

\* the elements of a sequence
Range(s) == {s[i] : i \in 1..Len(s)}

RECURSIVE SetToSeq(_)
SetToSeq(S) ==
    IF S = {} THEN <<>>
    ELSE LET x == CHOOSE y \in S : TRUE IN <<x>> \o SetToSeq(S \ {x})

\* sorted(S) of a set of strings
SortedStrings(S) == SortSeq(SetToSeq(S), StrLess)


(***************************************************************************)
(* Cells.  A cell read by read_excel is a number, a string, a date         *)
(* (Timestamp, held as days since 1970-01-01) or empty (NaN / NaT).        *)
(***************************************************************************)
NaN == [t |-> "nan", n |-> 0, s |-> ""]

Num(n) == [t |-> "num", n |-> n, s |-> ""]

Str(s) == [t |-> "str", n |-> 0, s |-> s]

Date(days) == [t |-> "date", n |-> days, s |-> ""]

NaT == NaN

NotNa(c) == c.t # "nan"

\* proleptic Gregorian calendar: days since 1970-01-01 of y-m-d
DaysFromCivil(y, m, d) ==
    LET yy  == IF m <= 2 THEN y - 1 ELSE y
        era == yy \div 400
        yoe == yy - era * 400
        mp  == IF m > 2 THEN m - 3 ELSE m + 9
        doy == (153 * mp + 2) \div 5 + d - 1
        doe == yoe * 365 + yoe \div 4 - yoe \div 100 + doy
    IN  era * 146097 + doe - 719468

\* the calendar month (1..12) of a day counted from 1970-01-01
MonthOfDays(days) ==
    LET z   == days + 719468
        era == z \div 146097
        doe == z - era * 146097
        yoe == (doe - doe \div 1460 + doe \div 36524 - doe \div 146096) \div 365
        doy == doe - (365 * yoe + yoe \div 4 - yoe \div 100)
        mp  == (5 * doy + 2) \div 153
    IN  IF mp < 10 THEN mp + 3 ELSE mp - 9

Timestamp(y, m, d) == Date(DaysFromCivil(y, m, d))

Digits == "0123456789"

DigitOf == [c \in Chars(Digits) |-> IndexIn(c, Digits) - 1] @@ <<>>

IsDigit(c) == c \in DOMAIN DigitOf

IsDigits(s) == \A i \in 1..Len(s) : IsDigit(CharAt(s, i))

RECURSIVE ToInt(_)
ToInt(s) ==
    IF Len(s) = 0 THEN 0
    ELSE 10 * ToInt(SubSeq(s, 1, Len(s) - 1)) + DigitOf[CharAt(s, Len(s))]

IsLeap(y) == (y % 4 = 0 /\ y % 100 # 0) \/ y % 400 = 0

DaysInMonth(y, m) ==
    IF m = 2 THEN (IF IsLeap(y) THEN 29 ELSE 28)
    ELSE IF m \in {4, 6, 9, 11} THEN 30 ELSE 31

\* a "NN/NN/NNNN" string read with the first or the second field as the day;
\* anything else is not a date
ParseSlashDate(s, dayfirst) ==
    IF /\ Len(s) = 10
       /\ CharAt(s, 3) = "/" /\ CharAt(s, 6) = "/"
       /\ IsDigits(SubSeq(s, 1, 2)) /\ IsDigits(SubSeq(s, 4, 5))
       /\ IsDigits(SubSeq(s, 7, 10))
    THEN LET a == ToInt(SubSeq(s, 1, 2))
             b == ToInt(SubSeq(s, 4, 5))
             y == ToInt(SubSeq(s, 7, 10))
             d == IF dayfirst THEN a ELSE b
             m == IF dayfirst THEN b ELSE a
         IN  IF m \in 1..12 /\ d \in 1..DaysInMonth(y, m)
             THEN Timestamp(y, m, d) ELSE NaT
    ELSE NaT

\* seconds per day and nanoseconds per second
SecondsPerDay == 86400

NanosPerSecond == 1000000000

\* pd.to_datetime(cell, errors="coerce", dayfirst=...): a number is a count
\* of nanoseconds since 1970-01-01
ToDatetime(c, dayfirst) ==
    CASE c.t = "date" -> c
      [] c.t = "num"  -> Date((c.n \div SecondsPerDay) \div NanosPerSecond)
      [] c.t = "str"  -> ParseSlashDate(c.s, dayfirst)
      [] OTHER        -> NaT

\* origin="1899-12-30"
SerialOrigin == DaysFromCivil(1899, 12, 30)

\* pd.to_datetime(cell, errors="coerce", unit="D", origin="1899-12-30")
ToDatetimeSerial(c) ==
    IF c.t = "num" THEN Date(SerialOrigin + c.n) ELSE NaT

\* pd.api.types.is_numeric_dtype of a column read by read_excel: an empty
\* sheet gives object columns; numbers and blanks give int64 / float64
IsNumericDtype(cells) ==
    /\ Len(cells) > 0
    /\ \A i \in 1..Len(cells) : cells[i].t \in {"num", "nan"}

Column(df, c) == [i \in 1..Len(df) |-> df[i][c]] \o <<>>

month_map ==
    <<"JAN", "FEB", "MAR", "APR", "MAY", "JUNE",
      "JULY", "AUG", "SEP", "OCT", "NOV", "DEC">>

month_order == month_map

\* df[date]_dt: parse, then the Excel serial fallback when nothing parsed
\* and the column is numeric
DateColumn(df, datecol) ==
    LET cells == Column(df, datecol)
        dt    == [i \in 1..Len(df) |-> ToDatetime(cells[i], TRUE)] \o <<>>
    IN  IF (\A i \in 1..Len(df) : ~NotNa(dt[i])) /\ IsNumericDtype(cells)
        THEN [i \in 1..Len(df) |-> ToDatetimeSerial(cells[i])] \o <<>>
        ELSE dt

\* df["MONTH"] = dt.month.map(month_map)
MonthColumn(df, datecol) ==
    LET dt == DateColumn(df, datecol)
    IN  [i \in 1..Len(df) |->
            IF NotNa(dt[i]) THEN Str(month_map[MonthOfDays(dt[i].n)]) ELSE NaN] \o <<>>

\* df with the MONTH column, rows without a month dropped
WithMonth(df, datecol) ==
    LET mc   == MonthColumn(df, datecol)
        full == [i \in 1..Len(df) |-> df[i] @@ ("MONTH" :> mc[i])] \o <<>>
    IN  SelectSeq(full, LAMBDA r : NotNa(r["MONTH"]))

(***************************************************************************)
(* Frames: what a transform returns or raises.                             *)
(***************************************************************************)
\* a sequence of rows with every row and cell computed
Computed(rws) == [i \in 1..Len(rws) |-> rws[i] @@ <<>>] \o <<>>

Ok(cols, rws) ==
    [status |-> "ok", exc |-> "", missing |-> <<>>,
     columns |-> cols \o <<>>, rows |-> Computed(rws)]

Raise(exc, names) ==
    [status |-> "error", exc |-> exc, missing |-> names, columns |-> <<>>, rows |-> <<>>]

NoFrame ==
    [status |-> "none", exc |-> "", missing |-> <<>>, columns |-> <<>>, rows |-> <<>>]

\* df.columns = f[df.columns]: the cells follow their column
Rename(df, f) ==
    IF Len(df) = 0 THEN df
    ELSE LET old   == DOMAIN df[1]
             name  == [h \in old |-> f[h]]
             names == {name[h] : h \in old}
             from  == [c \in names |-> CHOOSE h \in old : name[h] = c]
         IN  Computed([i \in 1..Len(df) |-> [c \in names |-> df[i][from[c]]]])

\* df.columns.str.replace(...).str.strip()
NormalizeHeader(h) == Strip(ReplaceNewlineOrQuote(h))

\* [c for c in required if c not in df.columns]
MissingColumns(required, present) == SelectSeq(required, LAMBDA c : c \notin present)

(***************************************************************************)
(* groupby / pivot_table                                                   *)
(***************************************************************************)
TypeErrorCell == [t |-> "error", n |-> 0, s |-> ""]

\* Python's a + b on the values of two cells
Add(a, b) ==
    CASE a.t = "error" \/ b.t = "error" -> TypeErrorCell
      [] a.t = "num" /\ b.t = "num"     -> Num(a.n + b.n)
      [] a.t = "str" /\ b.t = "str"     -> Str(a.s \o b.s)
      [] OTHER                          -> TypeErrorCell

RECURSIVE GroupSumFrom(_, _, _)
GroupSumFrom(cells, acc, nobs) ==
    IF Len(cells) = 0 THEN acc
    ELSE IF ~NotNa(Head(cells)) THEN GroupSumFrom(Tail(cells), acc, nobs)
    ELSE GroupSumFrom(Tail(cells),
                      IF nobs = 0 THEN Head(cells) ELSE Add(acc, Head(cells)),
                      nobs + 1)

\* aggfunc="first" in place of "sum": the first value of the group
GroupSumFirst(cells) ==
    LET vals == SelectSeq(cells, NotNa)
    IN  IF Len(vals) = 0 THEN Num(0) ELSE Head(vals)

\* groupby(...).sum() of one group: empty cells are skipped, the first value
\* starts the sum, an empty group sums to 0
GroupSum(cells) == GroupSumFrom(cells, Num(0), 0)

CellLess(a, b) ==
    IF ~NotNa(a) THEN FALSE
    ELSE IF ~NotNa(b) THEN TRUE
    ELSE IF a.t = "str" /\ b.t = "str" THEN StrLess(a.s, b.s)
    ELSE a.n < b.n

RECURSIVE TupleLess(_, _)
TupleLess(a, b) ==
    IF Len(a) = 0 \/ Len(b) = 0 THEN FALSE
    ELSE IF Head(a) = Head(b) THEN TupleLess(Tail(a), Tail(b))
    ELSE CellLess(Head(a), Head(b))

\* sorted(S) of a set of group keys
SortedKeys(S) == SortSeq(SetToSeq(S), TupleLess)

KeyOf(r, cols) == [j \in 1..Len(cols) |-> r[cols[j]]] \o <<>>

HasNa(k) == \E j \in 1..Len(k) : ~NotNa(k[j])

\* the cells of column values in the rows of df whose key over cols is k
GroupCells(df, cols, k, values) ==
    LET members == SelectSeq(df, LAMBDA r : KeyOf(r, cols) = k)
    IN  [i \in 1..Len(members) |-> members[i][values]] \o <<>>

\* df.groupby(cols, dropna=..., as_index=False)[values].sum()
GroupBySum(df, cols, values, dropna) ==
    LET kept == SelectSeq(df, LAMBDA r : ~dropna \/ ~HasNa(KeyOf(r, cols)))
        keys == SortedKeys({KeyOf(kept[i], cols) : i \in 1..Len(kept)})
        sums == [i \in 1..Len(keys) |->
                    GroupSum(GroupCells(kept, cols, keys[i], values))] \o <<>>
    IN  IF \E i \in 1..Len(keys) : sums[i].t = "error"
        THEN Raise("TypeError", <<>>)
        ELSE Ok(cols \o <<values>>,
                [i \in 1..Len(keys) |->
                    [c \in Range(cols) \cup {values} |->
                        IF c = values THEN sums[i]
                        ELSE keys[i][CHOOSE j \in 1..Len(cols) : cols[j] = c]]])

\* pivot_table without fill_value: an absent combination stays empty
fill_value_none == NaN

fill_value == Num(0)

\* df.pivot_table(index=index, columns="MONTH", values=values, aggfunc="sum",
\*                fill_value=0).reset_index()
\* The groups are formed with dropna=True; the index and the month columns
\* come out sorted.
PivotTable(df, index, values) ==
    LET agged  == GroupBySum(df, index \o <<"MONTH">>, values, TRUE)
        g      == agged.rows
        keys   == SortedKeys({KeyOf(g[i], index) : i \in 1..Len(g)})
        months == SortedStrings({g[i]["MONTH"].s : i \in 1..Len(g)})
        cell(k, m) ==
            LET hit == {i \in 1..Len(g) : KeyOf(g[i], index) = k /\ g[i]["MONTH"].s = m}
            IN  IF hit = {} THEN fill_value ELSE g[CHOOSE i \in hit : TRUE][values]
    IN  IF agged.status = "error" THEN agged
        ELSE Ok(index \o months,
                [i \in 1..Len(keys) |->
                    [c \in Range(index) \cup Range(months) |->
                        IF c \in Range(months) THEN cell(keys[i], c)
                        ELSE keys[i][CHOOSE j \in 1..Len(index) : index[j] = c]]])

\* the reordering left out: the columns as pivot_table returns them
OrderedColsUnsorted(cols) == cols

\* every month of month_order made a column, present or not
OrderedColsAllMonths(cols) ==
    SelectSeq(cols, LAMBDA c : c \notin Range(month_order)) \o month_order

\* non_month_cols + [m for m in month_order if m in pivot_df.columns]
OrderedCols(cols) ==
    SelectSeq(cols, LAMBDA c : c \notin Range(month_order))
        \o SelectSeq(month_order, LAMBDA m : m \in Range(cols))

\* pivot_df[ordered_cols]
ReorderMonths(frame) ==
    IF frame.status = "ok" THEN Ok(OrderedCols(frame.columns), frame.rows) ELSE frame

(***************************************************************************)
(* The single-table transforms                                             *)
(***************************************************************************)
static_cols ==
    <<"Customer", "Supplier", "Supplier COO", "Production Plant (region)", "Program",
      "Construction", "Article", "# of repeats in Article ( optional)",
      "Composition", "If Yarn Dyed/ Piece Dyed">>

\* raw headers of a Savage buy file, as a spreadsheet export writes them
BuyHeaders == {"DESIGN\nSTYLE", " XFD", "\"GLOBAL UNITS\""}

\* raw headers of a VSPINK brief
VspinkHeaders == (Range(static_cols) \ {"Article"}) \cup {" Article ", "Qty (m)", "EX-mill "}

\* every raw header cell of the modelled sheets
RawHeaders == BuyHeaders \cup VspinkHeaders \cup {"Notes"}

\* the normalized names of the raw headers, computed once
CleanHeader == [h \in RawHeaders |-> NormalizeHeader(h)]

StrippedHeader == [h \in RawHeaders |-> Strip(h)]

CleanName(h) == CleanHeader[h]

StrippedName(h) == StrippedHeader[h]

required == <<"DESIGN STYLE", "XFD", "GLOBAL UNITS">>

\* Savage.py transform_style_units
SavageStyleUnits(hdr, df) ==
    LET d       == Rename(df, CleanHeader)
        present == {CleanName(h) : h \in hdr}
        missing == MissingColumns(required, present)
    IN  IF missing # <<>> THEN Raise("ValueError", missing)
        ELSE ReorderMonths(
                PivotTable(WithMonth(d, "XFD"), <<"DESIGN STYLE">>, "GLOBAL UNITS"))

\* app.py transform_style_units: no check of the required columns; the first
\* lookup of an absent column raises KeyError with that one name
AppStyleUnits(hdr, df) ==
    LET d       == Rename(df, CleanHeader)
        present == {CleanName(h) : h \in hdr}
    IN  IF "XFD" \notin present THEN Raise("KeyError", <<"XFD">>)
        ELSE IF "GLOBAL UNITS" \notin present THEN Raise("KeyError", <<"GLOBAL UNITS">>)
        ELSE IF "DESIGN STYLE" \notin present THEN Raise("KeyError", <<"DESIGN STYLE">>)
        ELSE ReorderMonths(
                PivotTable(WithMonth(d, "XFD"), <<"DESIGN STYLE">>, "GLOBAL UNITS"))

required_cols == static_cols \o <<"Qty (m)", "EX-mill">>

\* Savage.py transform_vspink
Vspink(hdr, df) ==
    LET d       == Rename(df, StrippedHeader)
        present == {StrippedName(h) : h \in hdr}
        missing == MissingColumns(required_cols, present)
        grouped == GroupBySum(WithMonth(d, "EX-mill"), static_cols \o <<"MONTH">>,
                              "Qty (m)", FALSE)
    IN  IF missing # <<>> THEN Raise("ValueError", missing)
        ELSE IF grouped.status = "error" THEN grouped
        ELSE ReorderMonths(PivotTable(grouped.rows, static_cols, "Qty (m)"))

(***************************************************************************)
(* The uploaded single-sheet files.  columns holds the sheet's raw header  *)
(* cells, rows its data rows (raw header -> cell), result the outcome of   *)
(* the transform that was run on it.                                       *)
(***************************************************************************)
MaxRows == 2

BuyRow(style, xfd, units) ==
    [h \in BuyHeaders |->
        CASE NormalizeHeader(h) = "DESIGN STYLE" -> style
          [] NormalizeHeader(h) = "XFD"          -> xfd
          [] OTHER                               -> units]

\* sample identities of a VSPINK row: complete, another article, and one with
\* the optional repeats cell left empty
VspinkIdentity(k, h) ==
    CASE Strip(h) = "Article" -> Str(IF k = "V2" THEN "A200" ELSE "A100")
      [] Strip(h) = "# of repeats in Article ( optional)" ->
            (IF k = "V3" THEN NaN ELSE Str("2"))
      [] OTHER -> Str("x")

VspinkRow(k, exmill, qty) ==
    [h \in VspinkHeaders |->
        CASE Strip(h) = "EX-mill" -> exmill
          [] Strip(h) = "Qty (m)" -> qty
          [] OTHER                -> VspinkIdentity(k, h)]

\* date cells: a date cell, a day-first text date, text that is no date
DateCells == {Timestamp(2024, 1, 15), Str("01/02/2024"), Str("TBD")}

\* date cells of a column of spreadsheet serials
SerialCells == {Num(45000), Num(45350), NaN}

MeasureCells == {Num(100), Num(25), NaN}

\* measure cells of a column that holds text
TextMeasureCells == {Num(100), Str("1,250"), Str("n/a")}

BuyRows(dates, measures) ==
    {BuyRow(st, d, u) : st \in {Str("S1"), Str("S2"), NaN}, d \in dates, u \in measures}

VspinkRows(dates, measures) ==
    {VspinkRow(k, d, u) : k \in {"V1", "V2", "V3"}, d \in dates, u \in measures}

\* the rows a sheet may hold, by the kind of file: [buy |-> ..., vspink |-> ...]
Pool        == [buy    |-> BuyRows(DateCells, MeasureCells),
                vspink |-> VspinkRows(DateCells, MeasureCells)]

SerialPool  == [buy    |-> BuyRows(SerialCells, {Num(100), Num(25)}),
                vspink |-> VspinkRows(SerialCells, {Num(100), Num(25)})]

TextPool    == [buy    |-> BuyRows(DateCells \ {Str("TBD")}, TextMeasureCells),
                vspink |-> VspinkRows(DateCells \ {Str("TBD")}, TextMeasureCells)]

NoResult == [op |-> "none", out |-> NoFrame]

Init ==
    /\ columns \in {BuyHeaders, VspinkHeaders}
    /\ rows = <<>>
    /\ workbook = <<>>
    /\ result = NoResult

\* one more data row in the sheet that is uploaded
AddRowFrom(pool) ==
    /\ result.op = "none"
    /\ Len(rows) < MaxRows
    /\ \E r \in (IF columns = BuyHeaders THEN pool.buy ELSE pool.vspink) :
            rows' = Append(rows, r)
    /\ UNCHANGED <<columns, workbook, result>>

AddRow == AddRowFrom(Pool)

AddSerialRow == AddRowFrom(SerialPool)

AddTextRow == AddRowFrom(TextPool)

\* Savage page, buy file uploader
TransformStyleUnits ==
    /\ result.op = "none"
    /\ result' = [op |-> "savage", out |-> SavageStyleUnits(columns, rows)]
    /\ UNCHANGED <<columns, rows, workbook>>

\* app.py page
AppTransformStyleUnits ==
    /\ result.op = "none"
    /\ result' = [op |-> "app", out |-> AppStyleUnits(columns, rows)]
    /\ UNCHANGED <<columns, rows, workbook>>

\* VSPINK page
TransformVspink ==
    /\ result.op = "none"
    /\ result' = [op |-> "vspink", out |-> Vspink(columns, rows)]
    /\ UNCHANGED <<columns, rows, workbook>>

Transform == TransformStyleUnits \/ AppTransformStyleUnits \/ TransformVspink

Next == AddRow \/ Transform

Spec == Init /\ [][Next]_vars

NextSerial == AddSerialRow \/ Transform

SpecSerial == Init /\ [][NextSerial]_vars

NextCoerce == AddTextRow \/ Transform

SpecCoerce == Init /\ [][NextCoerce]_vars

(***************************************************************************)
(* Properties of the pivot transforms                                      *)
(***************************************************************************)
Out == result.out

\* the transform that ran was given the kind of file it is written for
Applies ==
    \/ result.op \in {"savage", "app"} /\ columns = BuyHeaders
    \/ result.op = "vspink" /\ columns = VspinkHeaders

IdCols == IF result.op = "vspink" THEN static_cols ELSE <<"DESIGN STYLE">>

DateCol == IF result.op = "vspink" THEN "EX-mill" ELSE "XFD"

MeasureCol == IF result.op = "vspink" THEN "Qty (m)" ELSE "GLOBAL UNITS"

\* the uploaded table under its normalized column names
In == IF result.op = "vspink" THEN Rename(rows, StrippedHeader) ELSE Rename(rows, CleanHeader)

\* the month name of the date that row i's date cell stands for, "" if none
ParsedMonth(i) ==
    LET dt == DateColumn(In, DateCol)[i]
    IN  IF NotNa(dt) THEN month_map[MonthOfDays(dt.n)] ELSE ""

Identity(r) == KeyOf(r, IdCols)

Value(c) == IF c.t = "num" THEN c.n ELSE 0

RECURSIVE SumSet(_, _)
\* the sum of f[x] over x in S
SumSet(S, f) ==
    IF S = {} THEN 0
    ELSE LET x == CHOOSE y \in S : TRUE IN f[x] + SumSet(S \ {x}, f)

\* the input rows of identity k dated in month m
Contributors(k, m) ==
    {i \in 1..Len(In) : Identity(In[i]) = k /\ ParsedMonth(i) = m}

MeasureOf == [i \in 1..Len(In) |-> Value(In[i][MeasureCol])]

MonthCols == {m \in Range(month_order) : m \in Range(Out.columns)}

\* C1: every output cell (identity row, month column) is the sum of the
\* measure over exactly the input rows of that identity whose date cell parses
\* to that month, so a row whose date cell does not parse adds to no cell; the
\* output has one row per identity.
C1_CellsAreSums ==
    (Applies /\ Out.status = "ok") =>
        /\ \A a, b \in 1..Len(Out.rows) :
                a # b => Identity(Out.rows[a]) # Identity(Out.rows[b])
        /\ \A a \in 1..Len(Out.rows) : \A m \in MonthCols :
                Out.rows[a][m] = Num(SumSet(Contributors(Identity(Out.rows[a]), m), MeasureOf))

\* an output row whose identity also has an undated input row with a measure
C1_Witness ==
    /\ Applies /\ Out.status = "ok"
    /\ \E a \in 1..Len(Out.rows) : \E i \in 1..Len(In) :
            /\ Identity(In[i]) = Identity(Out.rows[a])
            /\ ParsedMonth(i) = "" /\ MeasureOf[i] > 0

\* a dated row exists for the pair (k, m)
HasDatedRow(k, m) == Contributors(k, m) # {}

\* C2 as stated: every output row holds a cell for each of the twelve months,
\* 0 where no dated row exists for the pair, also for months in no input row.
C2_AllTwelveMonths ==
    (Applies /\ Out.status = "ok") =>
        \A a \in 1..Len(Out.rows) : \A m \in Range(month_order) :
            ~HasDatedRow(Identity(Out.rows[a]), m) =>
                /\ m \in Range(Out.columns) /\ m \in DOMAIN Out.rows[a]
                /\ Out.rows[a][m] = Num(0)

\* m is the month of a dated input row whose identity is complete
MonthOccurs(m) ==
    \E i \in 1..Len(In) : ParsedMonth(i) = m /\ ~HasNa(Identity(In[i]))

\* C2 amended: the output has a column for exactly the months of the dated
\* rows with a complete identity; in such a column every output row holds a
\* cell, exactly 0 when no dated row exists for the pair.
C2_ZeroFill ==
    (Applies /\ Out.status = "ok") =>
        \A m \in Range(month_order) :
            /\ m \in Range(Out.columns) <=> MonthOccurs(m)
            /\ m \in Range(Out.columns) =>
                    \A a \in 1..Len(Out.rows) :
                        /\ m \in DOMAIN Out.rows[a]
                        /\ ~HasDatedRow(Identity(Out.rows[a]), m) => Out.rows[a][m] = Num(0)

\* an output cell filled for a pair that has no dated row
C2_Witness ==
    /\ Applies /\ Out.status = "ok"
    /\ \E a \in 1..Len(Out.rows) : \E m \in MonthCols :
            ~HasDatedRow(Identity(Out.rows[a]), m) /\ Out.rows[a][m] = Num(0)

MonthIndex(m) == CHOOSE i \in 1..Len(month_order) : month_order[i] = m

\* C3: the identity columns come first, in their declared order, then the
\* month columns in calendar order.
C3_ColumnOrder ==
    (result.op # "none" /\ Out.status = "ok") =>
        LET cols == Out.columns
            n    == Len(IdCols)
        IN  /\ Len(cols) >= n
            /\ SubSeq(cols, 1, n) = IdCols
            /\ \A i \in (n + 1)..Len(cols) : cols[i] \in Range(month_order)
            /\ \A i, j \in (n + 1)..Len(cols) :
                    i < j => MonthIndex(cols[i]) < MonthIndex(cols[j])

\* the input held a FEB row before a JAN row and both months are columns
C3_Witness ==
    /\ Applies /\ Out.status = "ok"
    /\ {"JAN", "FEB"} \subseteq Range(Out.columns)
    /\ Len(rows) = 2 /\ ParsedMonth(1) = "FEB" /\ ParsedMonth(2) = "JAN"

\* C9: when no input row has a parseable date the transform returns a table
\* with no data rows and exactly the identity columns, and raises nothing.
C9_EmptyResult ==
    (Applies /\ \A i \in 1..Len(In) : ParsedMonth(i) = "") =>
        Out = Ok(IdCols, <<>>)

\* rows were uploaded, none with a parseable date
C9_Witness ==
    /\ Applies /\ Len(rows) > 0
    /\ \A i \in 1..Len(In) : ParsedMonth(i) = ""
    /\ Out.status = "ok" /\ Out.rows = <<>>

TotalOut ==
    LET cells == {<<a, m>> : a \in 1..Len(Out.rows), m \in MonthCols}
    IN  SumSet(cells, [p \in cells |-> Value(Out.rows[p[1]][p[2]])])

TotalDatedIn == SumSet({i \in 1..Len(In) : ParsedMonth(i) # ""}, MeasureOf)

\* C10 as stated: a dated row with an empty identity cell is kept, so the
\* output cells add up to the measure of all dated input rows.
C10_MissingIdentityKept ==
    (Applies /\ Out.status = "ok") => TotalOut = TotalDatedIn

\* numeric serials in the date column: C5 as stated.  Every row of a column
\* of spreadsheet serials is aggregated under the month of the day that lies
\* its serial after 1899-12-30 (45000 -> 2023-03-15 -> MAR).
SerialMonth(i) ==
    LET c == In[i][DateCol]
    IN  IF c.t = "num" THEN month_map[MonthOfDays(DaysFromCivil(1899, 12, 30) + c.n)] ELSE ""

SerialContributors(k, m) ==
    {i \in 1..Len(In) : Identity(In[i]) = k /\ SerialMonth(i) = m}

C5_SerialMonths ==
    (Applies /\ \A i \in 1..Len(In) : In[i][DateCol].t = "num") =>
        /\ Out.status = "ok"
        /\ \A i \in 1..Len(In) :
                ~HasNa(Identity(In[i])) =>
                    /\ SerialMonth(i) \in Range(Out.columns)
                    /\ \E a \in 1..Len(Out.rows) :
                            /\ Identity(Out.rows[a]) = Identity(In[i])
                            /\ Out.rows[a][SerialMonth(i)] =
                                    Num(SumSet(SerialContributors(Identity(In[i]), SerialMonth(i)),
                                               MeasureOf))

RECURSIVE RemoveCommas(_)
RemoveCommas(s) ==
    IF Len(s) = 0 THEN s
    ELSE (IF CharAt(s, 1) = "," THEN "" ELSE CharAt(s, 1))
            \o RemoveCommas(SubSeq(s, 2, Len(s)))

\* the lenient numeric coercion: thousands separators and surrounding
\* whitespace removed, then read as a number; 0 when that is no number
Coerced(c) ==
    LET txt == Strip(RemoveCommas(c.s))
    IN  CASE c.t = "num" -> c.n
          [] c.t = "str" /\ Len(txt) > 0 /\ IsDigits(txt) -> ToInt(txt)
          [] OTHER -> 0

CoercedMeasureOf == [i \in 1..Len(In) |-> Coerced(In[i][MeasureCol])]

\* C8 as stated: the measure is coerced before it is summed ("1,250" adds
\* 1250, text that is no number adds 0), the transform does not fail and no
\* row is dropped for its measure cell.
C8_MeasureCoerced ==
    Applies =>
        /\ Out.status = "ok"
        /\ \A i \in 1..Len(In) :
                (ParsedMonth(i) # "" /\ ~HasNa(Identity(In[i]))) =>
                    \E a \in 1..Len(Out.rows) :
                        /\ Identity(Out.rows[a]) = Identity(In[i])
                        /\ ParsedMonth(i) \in DOMAIN Out.rows[a]
                        /\ Out.rows[a][ParsedMonth(i)] =
                                Num(SumSet(Contributors(Identity(In[i]), ParsedMonth(i)),
                                           CoercedMeasureOf))

(***************************************************************************)
(* Sheets with columns missing                                             *)
(***************************************************************************)
InitLoad ==
    /\ columns = {}
    /\ rows = <<>>
    /\ workbook = <<>>
    /\ result = NoResult

\* one more header cell in the sheet that is uploaded: a buy file or a VSPINK
\* brief, some columns absent, possibly with a column of its own
AddColumn ==
    /\ result.op = "none"
    /\ \E h \in RawHeaders \ columns :
            /\ \/ columns \cup {h} \subseteq BuyHeaders \cup {"Notes"}
               \/ columns \cup {h} \subseteq VspinkHeaders \cup {"Notes"}
            /\ columns' = columns \cup {h}
    /\ UNCHANGED <<rows, workbook, result>>

NextLoad == AddColumn \/ Transform

SpecLoad == InitLoad /\ [][NextLoad]_vars

\* the required columns of the transform that ran which the sheet lacks
Required == IF result.op = "vspink" THEN required_cols ELSE required

Present ==
    IF result.op = "vspink" THEN {Strip(h) : h \in columns}
    ELSE {NormalizeHeader(h) : h \in columns}

Absent == {c \in Range(Required) : c \notin Present}

\* C4 as stated: a single-table transform fails when a required column is
\* absent after header normalization, the error names every absent required
\* column and no table is produced.
C4_MissingColumnsListed ==
    (result.op # "none" /\ Absent # {}) =>
        /\ Out.status = "error"
        /\ Range(Out.missing) = Absent
        /\ Out.rows = <<>> /\ Out.columns = <<>>

(***************************************************************************)
(* transform_plm_to_mcu: the PLM download workbook.  workbook is the       *)
(* sequence of its sheets in file order, a sheet its name, its raw header  *)
(* cells in column order and its number of data rows.                      *)
(***************************************************************************)
expected_sheet_names ==
    <<"Fabrics", "Strip Cut", "Laces", "Embriodery/Printing",
      "Elastics", "Tapes", "Trim/Component", "Label/ Transfer",
      "Foam Cup", "Packing Trim">>

base_cols ==
    <<"Sheet Names", "Season", "Style", "BOM", "Cycle", "Article",
      "Type of Const 1", "Supplier", "UOM", "Composition",
      "Measurement", "Supplier Country", "Avg YY">>

\* the content of the data cell in row r under raw header h of a sheet
SourceCell(sheet, h, r) == [t |-> "src", n |-> r, s |-> sheet \o "!" \o h]

\* pd.read_excel(xls, sheet_name=sheet)
ReadSheet(sh) ==
    Ok(sh.header,
       [r \in 1..sh.nrows |-> [h \in Range(sh.header) |-> SourceCell(sh.name, h, r)]])

\* df.columns = df.columns.str.strip()
StripColumns(df) ==
    LET name == [h \in Range(df.columns) |-> Strip(h)]
    IN  Ok([j \in 1..Len(df.columns) |-> name[df.columns[j]]],
           [r \in 1..Len(df.rows) |->
                [c \in {name[h] : h \in Range(df.columns)} |->
                    df.rows[r][CHOOSE h \in Range(df.columns) : name[h] = c]]])

\* the test without str.lower()
mask_keep_case_sensitive(c) == ~StartsWith(Strip(c), "sum")

\* ~df.columns.str.strip().str.lower().str.startswith("sum")
mask_keep(c) == ~StartsWith(Lower(Strip(c)), "sum")

\* df.loc[:, cols]
SelectColumns(df, cols) ==
    Ok(cols, [r \in 1..Len(df.rows) |-> [c \in Range(cols) |-> df.rows[r][c]]])

\* df.insert(0, col, value): raises when the column exists
InsertFirst(df, col, value) ==
    IF col \in Range(df.columns)
    THEN Raise("ValueError", <<col>>)
    ELSE Ok(<<col>> \o df.columns, [r \in 1..Len(df.rows) |-> df.rows[r] @@ (col :> value)])

\* for col in cols: if col not in df.columns: df[col] = ""
\* (each absent column is appended, in the order of cols)
EnsureColumns(df, cols) ==
    LET absent == SelectSeq(cols, LAMBDA c : c \notin Range(df.columns))
        blank  == [c \in Range(absent) |-> Str("")]
    IN  Ok(df.columns \o absent, [r \in 1..Len(df.rows) |-> df.rows[r] @@ blank])

\* base_cols + [c for c in df.columns if c not in base_cols]
BaseThenDynamic(cols) ==
    base_cols \o SelectSeq(cols, LAMBDA c : c \notin Range(base_cols))

\* the body of the loop over expected_sheet_names for a sheet that is present
PrepareSheet(sh) ==
    LET df       == StripColumns(ReadSheet(sh))
        kept     == SelectColumns(df, SelectSeq(df.columns, mask_keep))
        inserted == InsertFirst(kept, "Sheet Names", Str(sh.name))
        full     == EnsureColumns(inserted, base_cols)
    IN  IF inserted.status = "error" THEN inserted
        ELSE SelectColumns(full, BaseThenDynamic(full.columns))

RECURSIVE UnionColumns(_, _)
\* the columns of the frames in first-seen order
UnionColumns(frames, acc) ==
    IF Len(frames) = 0 THEN acc
    ELSE UnionColumns(Tail(frames),
                      acc \o SelectSeq(Head(frames).columns, LAMBDA c : c \notin Range(acc)))

RECURSIVE ConcatRows(_, _)
ConcatRows(frames, cols) ==
    IF Len(frames) = 0 THEN <<>>
    ELSE [r \in 1..Len(Head(frames).rows) |->
            [c \in Range(cols) |->
                IF c \in Range(Head(frames).columns) THEN Head(frames).rows[r][c] ELSE NaN]]
         \o ConcatRows(Tail(frames), cols)

\* pd.concat(frames, ignore_index=True)
Concat(frames) ==
    LET cols == UnionColumns(frames, <<>>)
    IN  Ok(cols, ConcatRows(frames, cols))

SheetNamed(xls, name) == xls[CHOOSE i \in 1..Len(xls) : xls[i].name = name]

sheet_names(xls) == {xls[i].name : i \in 1..Len(xls)}

\* Savage.py transform_plm_to_mcu
PlmToMcu(xls) ==
    LET found     == SelectSeq(expected_sheet_names, LAMBDA n : n \in sheet_names(xls))
        collected == [i \in 1..Len(found) |-> PrepareSheet(SheetNamed(xls, found[i]))] \o <<>>
        failed    == {i \in 1..Len(found) : collected[i].status = "error"}
        combined  == Concat(collected)
    IN  IF failed # {} THEN collected[CHOOSE i \in failed : \A j \in failed : i <= j]
        ELSE IF Len(collected) = 0 THEN Ok(base_cols, <<>>)
        ELSE SelectColumns(combined, BaseThenDynamic(combined.columns))

MaxCols == 2

\* names of sheets in an upload: two of the allow-list and one that is not on it
SheetNames == {"Laces", "Fabrics", "Summary"}

\* raw header cells of the sheets: a schema column, pre-computed totals, a
\* month column, a column that only contains "sum", and the origin column
SheetHeaders == {" Style ", "Sum of Qty", " sUM", "Jan-24", "Consumption", "Sheet Names"}

RowCounts == {0, 2}

TotalCols(xls) == SumSet(1..Len(xls), [i \in 1..Len(xls) |-> Len(xls[i].header)])

InitPlm ==
    /\ columns = {}
    /\ rows = <<>>
    /\ workbook = <<>>
    /\ result = NoResult

\* one more sheet in the workbook
AddSheet ==
    /\ result.op = "none"
    /\ \E name \in SheetNames \ sheet_names(workbook) : \E n \in RowCounts :
            workbook' = Append(workbook, [name |-> name, header |-> <<>>, nrows |-> n])
    /\ UNCHANGED <<columns, rows, result>>

\* one more column in the last sheet; the trimmed names of a sheet differ
AddSheetColumn ==
    /\ result.op = "none"
    /\ Len(workbook) > 0
    /\ TotalCols(workbook) < MaxCols
    /\ LET last == workbook[Len(workbook)]
       IN  \E h \in SheetHeaders :
              /\ \A g \in Range(last.header) : Strip(g) # Strip(h)
              /\ workbook' = [workbook EXCEPT ![Len(workbook)].header = Append(@, h)]
    /\ UNCHANGED <<columns, rows, result>>

\* Savage page, PLM download uploader
TransformPlmToMcu ==
    /\ result.op = "none"
    /\ result' = [op |-> "plm", out |-> PlmToMcu(workbook)]
    /\ UNCHANGED <<columns, rows, workbook>>

NextPlm == AddSheet \/ AddSheetColumn \/ TransformPlmToMcu

SpecPlm == InitPlm /\ [][NextPlm]_vars

(***************************************************************************)
(* Properties of transform_plm_to_mcu                                      *)
(***************************************************************************)
\* the allow-listed sheets of the workbook, in allow-list order
PresentSheets ==
    SelectSeq(expected_sheet_names, LAMBDA n : \E i \in 1..Len(workbook) : workbook[i].name = n)

IsSumName(c) == StartsWith(Lower(Strip(c)), "sum")

\* the schema columns, none of which is a "sum" column
SchemaNames == {c \in Range(base_cols) : ~IsSumName(c)}

\* C6: no column whose trimmed name starts with "sum", in any letter case,
\* is a column of the combined output or of any of its rows.
C6_NoSumColumns ==
    (result.op = "plm" /\ Out.status = "ok") =>
        \A c \in Range(Out.columns) \cup UNION {DOMAIN Out.rows[r] : r \in 1..Len(Out.rows)} :
            c \in SchemaNames \/ ~IsSumName(c)

\* an allow-listed sheet with data rows and a "sum" column was combined
C6_Witness ==
    /\ result.op = "plm" /\ Out.status = "ok" /\ Len(Out.rows) > 0
    /\ \E i \in 1..Len(workbook) :
            /\ workbook[i].name \in Range(expected_sheet_names)
            /\ workbook[i].nrows > 0
            /\ \E h \in Range(workbook[i].header) : IsSumName(h)
            /\ \E h \in Range(workbook[i].header) : ~IsSumName(h)

\* the cell of schema column c in data row r of sheet sh in the combined table
ExpectedBaseCell(sh, c, r) ==
    IF c = "Sheet Names" THEN Str(sh.name)
    ELSE IF \E h \in Range(sh.header) : Strip(h) = c
         THEN SourceCell(sh.name, CHOOSE h \in Range(sh.header) : Strip(h) = c, r)
         ELSE Str("")

RECURSIVE ExpectedOrigins(_)
\* <<sheet, row>> of every data row of the given sheets, sheet after sheet
ExpectedOrigins(names) ==
    IF Len(names) = 0 THEN <<>>
    ELSE LET sh == SheetNamed(workbook, Head(names))
         IN  [r \in 1..sh.nrows |-> <<sh, r>>] \o ExpectedOrigins(Tail(names))

RowsAsExpected ==
    LET origins == ExpectedOrigins(PresentSheets)
    IN  /\ Out.status = "ok"
        /\ Len(Out.columns) >= Len(base_cols)
        /\ SubSeq(Out.columns, 1, Len(base_cols)) = base_cols
        /\ Len(Out.rows) = Len(origins)
        /\ \A i \in 1..Len(origins) : \A c \in Range(base_cols) :
                /\ c \in DOMAIN Out.rows[i]
                /\ Out.rows[i][c] = ExpectedBaseCell(origins[i][1], c, origins[i][2])
        /\ PresentSheets = <<>> => Out.columns = base_cols

\* C7 as stated: for a workbook with any subset of the allow-listed sheets the
\* combined table holds exactly the rows of the allow-listed sheets present,
\* in allow-list order, each tagged with its sheet in the first column
\* "Sheet Names", with every schema column present ("" where the sheet lacks
\* it); header-only with the schema columns when no such sheet is present.
C7_CombinedRows ==
    result.op = "plm" => RowsAsExpected

\* no allow-listed sheet of the workbook has a column named "Sheet Names"
NoOriginColumn ==
    \A i \in 1..Len(workbook) :
        workbook[i].name \in Range(expected_sheet_names) =>
            \A h \in Range(workbook[i].header) : Strip(h) # "Sheet Names"

\* C7 restricted to the workbooks on which the insert of the origin column
\* does not raise
C7_CombinedRowsWithoutOriginColumn ==
    (result.op = "plm" /\ NoOriginColumn) => RowsAsExpected

====
